---- MODULE Spec2Model ----
(***************************************************************************)
(* Property registry with history and audit log (backend services).        *)
(*                                                                         *)
(* State: the four in-memory stores (propertyStore, codigoSequencialStore, *)
(* propertyHistoryStore, propertyAuditStore), the wall clock, and the      *)
(* propertyCreate invocations suspended at their await.                    *)
(*                                                                         *)
(* Conventions                                                             *)
(*  - a JavaScript string on which the code does character work is a       *)
(*    sequence of one-character strings; other strings are TLA+ strings    *)
(*    (accents are written without diacritics);                            *)
(*  - T | null is None (<<>>) or Some(x) (<<x>>);                          *)
(*  - an ISO-8601 timestamp is the instant it denotes, counted in ticks    *)
(*    since the epoch (TicksPerDay ticks per UTC day);                     *)
(*  - numbers with decimals (area, money) are counted in hundredths;       *)
(*  - a UUID is a positive integer, 0 is a string that is no UUID.         *)
(***************************************************************************)
EXTENDS Integers, Sequences, FiniteSets, TLC

VARIABLES
  records,      \* PropertyStore.records       : property_id -> PropertyEntity
  seqRecords,   \* CodigoSequencialStore.records: dateRef -> SequencialRecord
  locks,        \* CodigoSequencialStore.locks  : the dateRefs locked
  changes,      \* PropertyHistoryStore.changes : change_id -> change record
  events,       \* PropertyHistoryStore.events  : event_id -> lifecycle event
  audits,       \* PropertyAuditStore.audits    : audit_id -> audit record
  now,          \* the wall clock (new Date()), in ticks
  tz,           \* the server's local time zone: local = UTC + tz ticks
  uuids,        \* how many UUIDs uuidv4() has handed out, per kind of record
  inflight,     \* propertyCreate invocations suspended at `await generatePropertyCode()`
  result        \* the response of the call that completed in the last step

vars == <<records, seqRecords, locks, changes, events, audits, now, tz, uuids,
          inflight, result>>

-----------------------------------------------------------------------------
(* Bounds of the model *)

\* PROPERTY_DEFAULTS.MAX_RECORDS scaled to a store the model can fill
RecordLimit == 2
\* changes + events + audits the model stores at most
MaxHistory == 3
\* ticks the clock may advance
MaxTicks == 1
\* ticks per UTC day
TicksPerDay == 2
\* propertyCreate invocations in flight at once in the concurrent specification
MaxInflight == 2
\* the first instant of the clock: noon of 2025-01-28, 20116 days after 1970-01-01
StartTick == 40233

\* PROPERTY_DEFAULTS.MAX_RECORDS as the program sets it
MAX_RECORDS == 10000

-----------------------------------------------------------------------------
(* Values *)

None == <<>>
Some(x) == <<x>>
IsNull(o) == o = <<>>

UpperLetters == <<"A","B","C","D","E","F","G","H","I","J","K","L","M",
                  "N","O","P","Q","R","S","T","U","V","W","X","Y","Z">>
LowerLetters == <<"a","b","c","d","e","f","g","h","i","j","k","l","m",
                  "n","o","p","q","r","s","t","u","v","w","x","y","z">>
DigitChars == <<"0","1","2","3","4","5","6","7","8","9">>

Range(s) == {s[i] : i \in DOMAIN s}
Digits == Range(DigitChars)
Uppers == Range(UpperLetters)
Lowers == Range(LowerLetters)
IsDigit(c) == c \in Digits
IsLetter(c) == c \in Uppers \/ c \in Lowers
IsSpace(c) == c = " "

LowerOf == [c \in Uppers |-> LowerLetters[CHOOSE k \in DOMAIN UpperLetters : UpperLetters[k] = c]]
UpperOf == [c \in Lowers |-> UpperLetters[CHOOSE k \in DOMAIN LowerLetters : LowerLetters[k] = c]]
LowerChar(c) == IF c \in Uppers THEN LowerOf[c] ELSE c
UpperChar(c) == IF c \in Lowers THEN UpperOf[c] ELSE c

\* String.prototype.toLowerCase / toUpperCase
toLowerCase(s) == [i \in DOMAIN s |-> LowerChar(s[i])]
toUpperCase(s) == [i \in DOMAIN s |-> UpperChar(s[i])]

\* String(n) for n >= 0
RECURSIVE ToDigits(_)
ToDigits(n) == IF n < 10 THEN <<DigitChars[n + 1]>>
               ELSE ToDigits(n \div 10) \o <<DigitChars[(n % 10) + 1]>>

\* String.prototype.padStart(len, "0")
padStart(s, len) == [i \in 1..(len - Len(s)) |-> "0"] \o s

DigitValueOf == [c \in Digits |-> (CHOOSE k \in DOMAIN DigitChars : DigitChars[k] = c) - 1]
DigitValue(c) == DigitValueOf[c]
RECURSIVE ParseDigits(_)
ParseDigits(s) == IF s = <<>> THEN 0
                  ELSE 10 * ParseDigits(SubSeq(s, 1, Len(s) - 1)) + DigitValue(s[Len(s)])

-----------------------------------------------------------------------------
(* Dates *)

\* the proleptic Gregorian date of a day number (days since 1970-01-01)
CivilFromDays(days) ==
  LET z == days + 719468
      era == z \div 146097
      doe == z - era * 146097
      yoe == (doe - doe \div 1460 + doe \div 36524 - doe \div 146096) \div 365
      doy == doe - (365 * yoe + yoe \div 4 - yoe \div 100)
      mp == (5 * doy + 2) \div 153
      d == doy - (153 * mp + 2) \div 5 + 1
      m == IF mp < 10 THEN mp + 3 ELSE mp - 9
      y == yoe + era * 400 + (IF m <= 2 THEN 1 ELSE 0)
  IN [y |-> y, m |-> m, d |-> d]

DaysFromCivil(y0, m, d) ==
  LET y == IF m <= 2 THEN y0 - 1 ELSE y0
      era == y \div 400
      yoe == y - era * 400
      doy == (153 * (IF m > 2 THEN m - 3 ELSE m + 9) + 2) \div 5 + d - 1
      doe == yoe * 365 + yoe \div 4 - yoe \div 100 + doy
  IN era * 146097 + doe - 719468

\* the UTC day of an instant
DayOf(t) == t \div TicksPerDay

\* new Date(t).toISOString().split('T')[0] : "YYYY-MM-DD"
IsoDate(t) ==
  LET c == CivilFromDays(DayOf(t))
  IN padStart(ToDigits(c.y), 4) \o <<"-">> \o padStart(ToDigits(c.m), 2)
       \o <<"-">> \o padStart(ToDigits(c.d), 2)

\* s.replace(/-/g, '')
RemoveHyphens(s) == SelectSeq(s, LAMBDA c : c # "-")


-----------------------------------------------------------------------------
(* Constants of the program *)

PROPERTY_DEFAULTS == [STATUS |-> "Disponivel", VAGAS_GARAGEM |-> 0]

PROPERTY_STATUS == {"Disponivel", "Ocupada", "Manutencao", "Inativa"}

PROPERTY_TYPES == {"Casa", "Apartamento", "Kitnet", "Loja", "Sala Comercial", "Galpao"}

COMMERCIAL_TYPES == {"Loja", "Sala Comercial", "Galpao"}

\* decimals in hundredths: AREA_MIN is 0.01, AREA_MAX is 10000
PROPERTY_LIMITS ==
  [ENDERECO_MAX_LENGTH |-> 200, CEP_LENGTH |-> 9, BAIRRO_MAX_LENGTH |-> 100,
   CIDADE_MAX_LENGTH |-> 100, ESTADO_LENGTH |-> 2, AREA_MIN |-> 1,
   AREA_MAX |-> 1000000, QUARTOS_MIN |-> 0, QUARTOS_MAX |-> 20,
   BANHEIROS_MIN |-> 0, BANHEIROS_MAX |-> 10, VAGAS_MIN |-> 0, VAGAS_MAX |-> 20,
   DESCRICAO_MAX_LENGTH |-> 1000, CODIGO_MAX_LENGTH |-> 20]

VALID_ESTADOS ==
  {<<"A","C">>, <<"A","L">>, <<"A","P">>, <<"A","M">>, <<"B","A">>, <<"C","E">>,
   <<"D","F">>, <<"E","S">>, <<"G","O">>, <<"M","A">>, <<"M","T">>, <<"M","S">>,
   <<"M","G">>, <<"P","A">>, <<"P","B">>, <<"P","R">>, <<"P","E">>, <<"P","I">>,
   <<"R","J">>, <<"R","N">>, <<"R","S">>, <<"R","O">>, <<"R","R">>, <<"S","C">>,
   <<"S","P">>, <<"S","E">>, <<"T","O">>}

PROPERTY_CHANGE_TYPES ==
  {"mudancas_valor_aluguel", "alteracoes_status_propriedade",
   "modificacoes_descricao_propriedade", "atualizacoes_caracteristicas",
   "mudancas_dados_contato_proprietario", "todos"}

TODOS == "todos"

-----------------------------------------------------------------------------
(* Validation schemas (zod) *)

\* /^\d{5}-\d{3}$/ on a string of CEP_LENGTH characters
cepSchema(cep) ==
  /\ Len(cep) = PROPERTY_LIMITS.CEP_LENGTH
  /\ \A i \in 1..5 : IsDigit(cep[i])
  /\ cep[6] = "-"
  /\ \A i \in 7..9 : IsDigit(cep[i])

estadoSchema(estado) == estado \in VALID_ESTADOS

tipoPropriedadeSchema(tipo) == tipo \in PROPERTY_TYPES

statusSchema(status) == status \in PROPERTY_STATUS

\* /^[A-Za-z\s]+\s+[A-Za-z\s]+,\s*\d+/ : a prefix of letters and blanks with a
\* blank strictly inside it, a comma, blanks, a digit
enderecoRegex(s) ==
  \E k \in 4..Len(s) :
    /\ s[k] = ","
    /\ \A i \in 1..(k - 1) : IsLetter(s[i]) \/ IsSpace(s[i])
    /\ \E i \in 2..(k - 2) : IsSpace(s[i])
    /\ \E j \in (k + 1)..Len(s) :
         /\ IsDigit(s[j])
         /\ \A i \in (k + 1)..(j - 1) : IsSpace(s[i])

nullableInt(o, lo, hi) == IsNull(o) \/ (o[1] \in lo..hi)

\* a faulty variant of the refinement, which accepts rooms on any type
quartosRefine_any(data) == data.tipo_propriedade \in PROPERTY_TYPES

\* the refine of createSchema and updateSchema (BR-004)
quartosRefine(data) ==
  ~(data.tipo_propriedade \in COMMERCIAL_TYPES /\ ~IsNull(data.quartos))

\* the fields createSchema and updateSchema share
commonFieldsOk(b) ==
  /\ tipoPropriedadeSchema(b.tipo_propriedade)
  /\ Len(b.endereco_completo) >= 1
  /\ Len(b.endereco_completo) <= PROPERTY_LIMITS.ENDERECO_MAX_LENGTH
  /\ enderecoRegex(b.endereco_completo)
  /\ cepSchema(b.cep)
  /\ Len(b.bairro) >= 1 /\ Len(b.bairro) <= PROPERTY_LIMITS.BAIRRO_MAX_LENGTH
  /\ Len(b.cidade) >= 1 /\ Len(b.cidade) <= PROPERTY_LIMITS.CIDADE_MAX_LENGTH
  /\ estadoSchema(b.estado)
  /\ b.area_total >= PROPERTY_LIMITS.AREA_MIN /\ b.area_total <= PROPERTY_LIMITS.AREA_MAX
  /\ nullableInt(b.quartos, PROPERTY_LIMITS.QUARTOS_MIN, PROPERTY_LIMITS.QUARTOS_MAX)
  /\ nullableInt(b.banheiros, PROPERTY_LIMITS.BANHEIROS_MIN, PROPERTY_LIMITS.BANHEIROS_MAX)
  /\ b.vagas_garagem \in PROPERTY_LIMITS.VAGAS_MIN..PROPERTY_LIMITS.VAGAS_MAX
  /\ b.valor_aluguel > 0
  /\ IsNull(b.valor_condominio) \/ b.valor_condominio[1] >= 0
  /\ IsNull(b.valor_iptu) \/ b.valor_iptu[1] >= 0
  /\ IsNull(b.descricao) \/ Len(b.descricao[1]) <= PROPERTY_LIMITS.DESCRICAO_MAX_LENGTH

createSchema(b) ==
  /\ commonFieldsOk(b)
  /\ b.usuario_cadastro # ""
  /\ quartosRefine(b)

updateSchema(b) ==
  /\ commonFieldsOk(b)
  /\ statusSchema(b.status)
  /\ quartosRefine(b)

-----------------------------------------------------------------------------
(* PropertyStore *)

EmptyMap == [x \in {} |-> x]
Put(m, k, v) == [x \in DOMAIN m \cup {k} |-> IF x = k THEN v ELSE m[x]]

getAll(recs) == {recs[id] : id \in DOMAIN recs}

\* getById(id) is defined (not undefined)
PropertyStore_exists(recs, property_id) == property_id \in DOMAIN recs

\* a faulty variant of sameAddress, comparing every field exactly: the
\* uniqueness of addresses distinguishes it from the comparison of the code
sameAddress_exact(p, endereco_completo, bairro, cep, cidade, estado) ==
  /\ p.endereco_completo = endereco_completo
  /\ p.bairro = bairro
  /\ p.cep = cep
  /\ p.cidade = cidade
  /\ p.estado = estado

sameAddress(p, endereco_completo, bairro, cep, cidade, estado) ==
  /\ toLowerCase(p.endereco_completo) = toLowerCase(endereco_completo)
  /\ toLowerCase(p.bairro) = toLowerCase(bairro)
  /\ p.cep = cep
  /\ toLowerCase(p.cidade) = toLowerCase(cidade)
  /\ toUpperCase(p.estado) = toUpperCase(estado)

existsByAddress(recs, endereco_completo, bairro, cep, cidade, estado) ==
  \E p \in getAll(recs) : sameAddress(p, endereco_completo, bairro, cep, cidade, estado)

\* a faulty variant of add, keeping only the record added
PropertyStore_add_replacing(recs, record) ==
  [x \in {record.property_id} |-> record]

PropertyStore_add(recs, record) == Put(recs, record.property_id, record)

PropertyStore_update(recs, property_id, data) == Put(recs, property_id, data)

PropertyStore_count(recs) == Cardinality(DOMAIN recs)

-----------------------------------------------------------------------------
(* CodigoSequencialStore *)

\* acquireLock: the lock is taken when it is free; a held lock is polled
\* maxAttempts times in a busy wait, during which nothing else runs, and
\* then the call throws
acquireLock(lks, dateRef) ==
  IF dateRef \notin lks THEN [ok |-> TRUE, locks |-> lks \cup {dateRef}]
                        ELSE [ok |-> FALSE, locks |-> lks]

releaseLock(lks, dateRef) == lks \ {dateRef}

getCurrentSequential(seqs, dateRef) ==
  IF dateRef \in DOMAIN seqs THEN seqs[dateRef].ultimo_sequencial ELSE 0

\* a faulty variant of the record getNextSequential leaves: a new date
\* starts at 0
nextSequencialRecord_fromZero(seqs, dateRef, t) ==
  IF dateRef \in DOMAIN seqs
    THEN [seqs[dateRef] EXCEPT !.ultimo_sequencial = @ + 1, !.updated_at = t]
    ELSE [data_referencia |-> dateRef, ultimo_sequencial |-> 0,
          created_at |-> t, updated_at |-> t]

\* the record getNextSequential leaves for dateRef
nextSequencialRecord(seqs, dateRef, t) ==
  IF dateRef \in DOMAIN seqs
    THEN [seqs[dateRef] EXCEPT !.ultimo_sequencial = @ + 1, !.updated_at = t]
    ELSE [data_referencia |-> dateRef, ultimo_sequencial |-> 1,
          created_at |-> t, updated_at |-> t]

\* a faulty variant of getNextSequential, which does not write the record back
getNextSequential_notStored(seqs, lks, dateRef, t) ==
  [ok |-> TRUE, value |-> getCurrentSequential(seqs, dateRef) + 1,
   records |-> seqs, locks |-> lks]

\* getNextSequential: [ok, value, records, locks]; ok = FALSE is the lock timeout
getNextSequential(seqs, lks, dateRef, t) ==
  LET got == acquireLock(lks, dateRef)
      rec == nextSequencialRecord(seqs, dateRef, t)
  IN IF ~got.ok
       THEN [ok |-> FALSE, value |-> 0, records |-> seqs, locks |-> lks]
       ELSE [ok |-> TRUE, value |-> rec.ultimo_sequencial,
             records |-> Put(seqs, dateRef, rec),
             locks |-> releaseLock(got.locks, dateRef)]

\* `PROP-${dateStr}-${String(sequential).padStart(3, '0')}`
formatPropertyCode(dateStr, sequential) ==
  <<"P","R","O","P","-">> \o dateStr \o <<"-">> \o padStart(ToDigits(sequential), 3)

\* generatePropertyCode: [ok, code, records, locks]
generatePropertyCode(seqs, lks, t) ==
  LET dateStr == RemoveHyphens(IsoDate(t))
      next == getNextSequential(seqs, lks, dateStr, t)
  IN [ok |-> next.ok, code |-> formatPropertyCode(dateStr, next.value),
      records |-> next.records, locks |-> next.locks]


-----------------------------------------------------------------------------
(* Responses *)

NoResult == [op |-> "none", code |-> "none", data |-> None]
Ok(op, data) == [op |-> op, code |-> "OK", data |-> Some(data)]
\* a thrown ServiceError(code, message, statusCode)
ServiceError(op, code, statusCode) ==
  [op |-> op, code |-> code, data |-> Some([statusCode |-> statusCode])]

Idle == inflight = {}

-----------------------------------------------------------------------------
(* propertyCreate *)

\* a faulty variant of checkDuplicateAddress, which looks for a duplicate
\* only while the store has room
checkDuplicateAddress_whenRoom(recs, endereco_completo, bairro, cep, cidade, estado) ==
  /\ PropertyStore_count(recs) < RecordLimit
  /\ existsByAddress(recs, endereco_completo, bairro, cep, cidade, estado)

checkDuplicateAddress(recs, endereco_completo, bairro, cep, cidade, estado) ==
  existsByAddress(recs, endereco_completo, bairro, cep, cidade, estado)

\* a faulty variant of the storage limit check, off by one
storageLimitReached_offByOne(recs) == PropertyStore_count(recs) > RecordLimit

\* a faulty variant of the storage limit check, refusing the last free place
storageLimitReached_early(recs) == PropertyStore_count(recs) + 1 >= RecordLimit

\* the storage limit check of propertyCreate
storageLimitReached(recs) == PropertyStore_count(recs) >= RecordLimit

newProperty(params, property_id, codigo_propriedade, t) ==
  [property_id |-> property_id,
   codigo_propriedade |-> codigo_propriedade,
   tipo_propriedade |-> params.tipo_propriedade,
   endereco_completo |-> params.endereco_completo,
   cep |-> params.cep,
   bairro |-> params.bairro,
   cidade |-> params.cidade,
   estado |-> params.estado,
   area_total |-> params.area_total,
   quartos |-> params.quartos,
   banheiros |-> params.banheiros,
   vagas_garagem |-> params.vagas_garagem,
   valor_aluguel |-> params.valor_aluguel,
   valor_condominio |-> params.valor_condominio,
   valor_iptu |-> params.valor_iptu,
   descricao |-> params.descricao,
   status |-> PROPERTY_DEFAULTS.STATUS,
   data_cadastro |-> t,
   usuario_cadastro |-> params.usuario_cadastro]

\* propertyCreate up to its await: validation, BR-001, the storage limit, the
\* clock, the UUID and the synchronous body of generatePropertyCode
CreateBegin(body) ==
  LET op == "propertyCreate"
      property_id == uuids.property + 1
      gen == generatePropertyCode(seqRecords, locks, now)
  IN IF ~createSchema(body)
       THEN /\ result' = ServiceError(op, "VALIDATION_ERROR", 400)
            /\ UNCHANGED <<records, seqRecords, locks, changes, events, audits,
                           now, tz, uuids, inflight>>
     ELSE IF checkDuplicateAddress(records, body.endereco_completo, body.bairro,
                                   body.cep, body.cidade, body.estado)
       THEN /\ result' = ServiceError(op, "DUPLICATE_ADDRESS", 409)
            /\ UNCHANGED <<records, seqRecords, locks, changes, events, audits,
                           now, tz, uuids, inflight>>
     ELSE IF storageLimitReached(records)
       THEN /\ result' = ServiceError(op, "MAX_RECORDS_REACHED", 507)
            /\ UNCHANGED <<records, seqRecords, locks, changes, events, audits,
                           now, tz, uuids, inflight>>
     ELSE IF ~gen.ok
       THEN /\ result' = [op |-> op, code |-> "LOCK_TIMEOUT", data |-> None]
            /\ uuids' = [uuids EXCEPT !.property = property_id]
            /\ UNCHANGED <<records, seqRecords, locks, changes, events, audits,
                           now, tz, inflight>>
     ELSE /\ uuids' = [uuids EXCEPT !.property = property_id]
          /\ seqRecords' = gen.records
          /\ locks' = gen.locks
          /\ inflight' = inflight \cup {newProperty(body, property_id, gen.code, now)}
          /\ result' = NoResult
          /\ UNCHANGED <<records, changes, events, audits, now, tz>>

\* propertyCreate after its await: propertyStore.add(newProperty); return
CreateFinish(p) ==
  /\ p \in inflight
  /\ records' = PropertyStore_add(records, p)
  /\ inflight' = inflight \ {p}
  /\ result' = Ok("propertyCreate", p)
  /\ UNCHANGED <<seqRecords, locks, changes, events, audits, now, tz, uuids>>

\* generatePropertyCode called on its own: the code it returns
GenerateCode ==
  LET gen == generatePropertyCode(seqRecords, locks, now)
  IN /\ getCurrentSequential(seqRecords, RemoveHyphens(IsoDate(now))) < MAX_RECORDS
     /\ gen.ok
     /\ seqRecords' = gen.records
     /\ locks' = gen.locks
     /\ result' = Ok("generatePropertyCode", [codigo_propriedade |-> gen.code])
     /\ UNCHANGED <<records, changes, events, audits, now, tz, uuids, inflight>>

-----------------------------------------------------------------------------
(* propertyUpdate *)

\* a faulty variant of the duplicate check of propertyUpdate, which does not
\* leave out the property being updated
duplicateExists_withSelf(recs, property_id, params) ==
  \E p \in getAll(recs) :
    sameAddress(p, params.endereco_completo, params.bairro, params.cep,
                params.cidade, params.estado)

\* a faulty variant of the duplicate check of propertyUpdate, which leaves
\* out the property being updated only when the request repeats its stored
\* address letter for letter
duplicateExists_unlessUnchanged(recs, property_id, params) ==
  \E p \in getAll(recs) :
    /\ \/ p.property_id # property_id
       \/ ~sameAddress_exact(p, params.endereco_completo, params.bairro, params.cep,
                             params.cidade, params.estado)
    /\ sameAddress(p, params.endereco_completo, params.bairro, params.cep,
                   params.cidade, params.estado)

duplicateExists(recs, property_id, params) ==
  \E p \in getAll(recs) :
    /\ p.property_id # property_id
    /\ sameAddress(p, params.endereco_completo, params.bairro, params.cep,
                   params.cidade, params.estado)

\* a faulty variant of updated, which takes the whole request and so loses
\* the author of the registration
updated_resetsAuthor(existing, params) ==
  [existing EXCEPT
     !.tipo_propriedade = params.tipo_propriedade,
     !.endereco_completo = params.endereco_completo,
     !.status = params.status,
     !.usuario_cadastro = "system"]

updated(existing, params) ==
  [existing EXCEPT
     !.tipo_propriedade = params.tipo_propriedade,
     !.endereco_completo = params.endereco_completo,
     !.cep = params.cep,
     !.bairro = params.bairro,
     !.cidade = params.cidade,
     !.estado = params.estado,
     !.area_total = params.area_total,
     !.quartos = params.quartos,
     !.banheiros = params.banheiros,
     !.vagas_garagem = params.vagas_garagem,
     !.valor_aluguel = params.valor_aluguel,
     !.valor_condominio = params.valor_condominio,
     !.valor_iptu = params.valor_iptu,
     !.descricao = params.descricao,
     !.status = params.status]

PropertyUpdate(property_id, body) ==
  LET op == "propertyUpdate"
  IN /\ UNCHANGED <<seqRecords, locks, changes, events, audits, now, tz, uuids, inflight>>
     /\ IF ~updateSchema(body)
          THEN /\ result' = ServiceError(op, "VALIDATION_ERROR", 400)
               /\ UNCHANGED records
        ELSE IF ~PropertyStore_exists(records, property_id)
          THEN /\ result' = ServiceError(op, "NOT_FOUND", 404)
               /\ UNCHANGED records
        ELSE IF duplicateExists(records, property_id, body)
          THEN /\ result' = ServiceError(op, "DUPLICATE_ADDRESS", 409)
               /\ UNCHANGED records
        ELSE /\ records' = PropertyStore_update(records, property_id,
                                                updated(records[property_id], body))
             /\ result' = Ok(op, updated(records[property_id], body))

-----------------------------------------------------------------------------
(* The clock *)

Tick ==
  /\ now < StartTick + MaxTicks
  /\ now' = now + 1
  /\ result' = NoResult
  /\ UNCHANGED <<records, seqRecords, locks, changes, events, audits, tz, uuids, inflight>>


-----------------------------------------------------------------------------
(* PropertyHistoryStore and PropertyAuditStore *)

\* faulty variants of addChange and addAudit, keyed by the property
addChange_byProperty(chs, change) == Put(chs, change.property_id, change)
addAudit_byProperty(auds, audit) == Put(auds, audit.consulted_property_id, audit)

addChange(chs, change) == Put(chs, change.change_id, change)
addEvent(evs, event) == Put(evs, event.event_id, event)
addAudit(auds, audit) == Put(auds, audit.audit_id, audit)

countChanges(chs) == Cardinality(DOMAIN chs)
countEvents(evs) == Cardinality(DOMAIN evs)
PropertyAuditStore_count(auds) == Cardinality(DOMAIN auds)

\* the records the model has room for
HistoryCount == countChanges(changes) + countEvents(events) + PropertyAuditStore_count(audits)

\* Array.from(map.values()): the values in insertion order, which is the order
\* of the identifiers the model hands out
RECURSIVE MapValues(_)
MapValues(m) ==
  IF DOMAIN m = {} THEN <<>>
  ELSE LET k == CHOOSE x \in DOMAIN m : \A y \in DOMAIN m : x <= y
       IN <<m[k]>> \o MapValues([x \in DOMAIN m \ {k} |-> m[x]])

\* the indexes i..Len(k) in stable descending order of the keys k
RECURSIVE OrderDesc(_, _)
OrderDesc(k, i) ==
  IF i > Len(k) THEN <<>>
  ELSE LET rest == OrderDesc(k, i + 1)
           \* i goes before the first index of rest whose key is not greater
           pos == IF \E p \in DOMAIN rest : k[rest[p]] <= k[i]
                    THEN CHOOSE p \in DOMAIN rest :
                           /\ k[rest[p]] <= k[i]
                           /\ \A j \in 1..(p - 1) : k[rest[j]] > k[i]
                    ELSE Len(rest) + 1
       IN SubSeq(rest, 1, pos - 1) \o <<i>> \o SubSeq(rest, pos, Len(rest))

\* Array.prototype.sort with comparator (a, b) => key(b) - key(a), keys[i]
\* being the key of s[i]: stable, descending
SortDesc(s, keys) ==
  LET ord == OrderDesc(keys, 1)
  IN [i \in DOMAIN s |-> s[ord[i]]]

\* Array.prototype.sort with comparator (a, b) => key(a) - key(b): stable, ascending
SortAsc(s, keys) ==
  LET ord == OrderDesc([i \in DOMAIN keys |-> 0 - keys[i]], 1)
  IN [i \in DOMAIN s |-> s[ord[i]]]

changeDate(c) == c.change_date
eventDate(e) == e.event_date

\* a faulty variant of getChangesByPropertyId, which leaves the changes in
\* the order of their registration
getChangesByPropertyId_unsorted(chs, property_id) ==
  SelectSeq(MapValues(chs), LAMBDA c : c.property_id = property_id)

getChangesByPropertyId(chs, property_id) ==
  LET found == SelectSeq(MapValues(chs), LAMBDA c : c.property_id = property_id)
  IN SortDesc(found, [i \in DOMAIN found |-> changeDate(found[i])])

getEventsByPropertyId(evs, property_id) ==
  LET found == SelectSeq(MapValues(evs), LAMBDA e : e.property_id = property_id)
  IN SortDesc(found, [i \in DOMAIN found |-> eventDate(found[i])])

-----------------------------------------------------------------------------
(* Validation of history queries *)

IsUuid(id) == id > 0

dateRegex(s) ==
  /\ Len(s) = 10
  /\ \A i \in {1, 2, 3, 4, 6, 7, 9, 10} : IsDigit(s[i])
  /\ s[5] = "-" /\ s[8] = "-"

\* new Date("YYYY-MM-DD"): None is the invalid date (NaN), otherwise UTC
\* midnight of that day
parseDate(s) ==
  LET y == ParseDigits(SubSeq(s, 1, 4))
      m == ParseDigits(SubSeq(s, 6, 7))
      d == ParseDigits(SubSeq(s, 9, 10))
      monthLen == IF m = 12 THEN 31
                  ELSE DaysFromCivil(y, m + 1, 1) - DaysFromCivil(y, m, 1)
  IN IF m \in 1..12 /\ d >= 1 /\ d <= monthLen
       THEN Some(DaysFromCivil(y, m, d) * TicksPerDay)
       ELSE None

\* a faulty variant of dateSchema, which accepts a date in the future
dateSchema_anyDay(s, t) ==
  /\ dateRegex(s)
  /\ ~IsNull(parseDate(s))

dateSchema(s, t) ==
  /\ dateRegex(s)
  /\ ~IsNull(parseDate(s))
  /\ parseDate(s)[1] <= t

changeTypeSchema(ct) == ct \in PROPERTY_CHANGE_TYPES

historyQuerySchema(q, t) ==
  /\ IsUuid(q.property_id)
  /\ IsNull(q.start_date) \/ dateSchema(q.start_date[1], t)
  /\ IsNull(q.end_date) \/ dateSchema(q.end_date[1], t)
  /\ IsNull(q.change_type) \/ changeTypeSchema(q.change_type[1])
  /\ IsNull(q.responsible_user) \/ Len(q.responsible_user[1]) >= 1
  /\ (~IsNull(q.start_date) /\ ~IsNull(q.end_date))
       => parseDate(q.start_date[1])[1] <= parseDate(q.end_date[1])[1]

-----------------------------------------------------------------------------
(* propertyHistoryQuery *)

\* endDate.setHours(23, 59, 59, 999): the last tick of the local day of t
endOfDay(t, zone) == ((t + zone) \div TicksPerDay) * TicksPerDay + (TicksPerDay - 1) - zone

\* a faulty variant of the filters on changes, which looks for changes of
\* the type 'todos'
filterChanges_todosLiteral(chs, q, zone) ==
  LET c0 == getChangesByPropertyId(chs, q.property_id)
      c1 == IF IsNull(q.start_date) THEN c0
            ELSE SelectSeq(c0, LAMBDA c : c.change_date >= parseDate(q.start_date[1])[1])
      c2 == IF IsNull(q.end_date) THEN c1
            ELSE SelectSeq(c1, LAMBDA c :
                   c.change_date <= endOfDay(parseDate(q.end_date[1])[1], zone))
      c3 == IF ~IsNull(q.change_type)
              THEN SelectSeq(c2, LAMBDA c : c.change_type = q.change_type[1])
              ELSE c2
      c4 == IF IsNull(q.responsible_user) THEN c3
            ELSE SelectSeq(c3, LAMBDA c :
                   toLowerCase(c.user_responsible) = toLowerCase(q.responsible_user[1]))
  IN c4

filterChanges(chs, q, zone) ==
  LET c0 == getChangesByPropertyId(chs, q.property_id)
      c1 == IF IsNull(q.start_date) THEN c0
            ELSE SelectSeq(c0, LAMBDA c : c.change_date >= parseDate(q.start_date[1])[1])
      c2 == IF IsNull(q.end_date) THEN c1
            ELSE SelectSeq(c1, LAMBDA c :
                   c.change_date <= endOfDay(parseDate(q.end_date[1])[1], zone))
      c3 == IF ~IsNull(q.change_type) /\ q.change_type[1] # TODOS
              THEN SelectSeq(c2, LAMBDA c : c.change_type = q.change_type[1])
              ELSE c2
      c4 == IF IsNull(q.responsible_user) THEN c3
            ELSE SelectSeq(c3, LAMBDA c :
                   toLowerCase(c.user_responsible) = toLowerCase(q.responsible_user[1]))
  IN c4

filterEvents(evs, q, zone) ==
  LET e0 == getEventsByPropertyId(evs, q.property_id)
      e1 == IF IsNull(q.start_date) THEN e0
            ELSE SelectSeq(e0, LAMBDA e : e.event_date >= parseDate(q.start_date[1])[1])
      e2 == IF IsNull(q.end_date) THEN e1
            ELSE SelectSeq(e1, LAMBDA e :
                   e.event_date <= endOfDay(parseDate(q.end_date[1])[1], zone))
  IN e2

\* a faulty variant of the summary, counting all changes of the property
summaryOf_totalOfAll(chs, q, found, evts) ==
  LET allChanges == getChangesByPropertyId(chs, q.property_id)
      sortedChanges == SortAsc(allChanges,
                               [i \in DOMAIN allChanges |-> changeDate(allChanges[i])])
  IN [total_changes |-> Len(allChanges),
      total_events |-> Len(evts),
      first_change_date |-> IF Len(sortedChanges) > 0
                              THEN Some(sortedChanges[1].change_date) ELSE None,
      last_change_date |-> IF Len(sortedChanges) > 0
                             THEN Some(sortedChanges[Len(sortedChanges)].change_date)
                             ELSE None]

\* a faulty variant of the summary, taking the dates from the changes found
summaryOf_datesOfFound(chs, q, found, evts) ==
  LET sortedChanges == SortAsc(found, [i \in DOMAIN found |-> changeDate(found[i])])
  IN [total_changes |-> Len(found),
      total_events |-> Len(evts),
      first_change_date |-> IF Len(sortedChanges) > 0
                              THEN Some(sortedChanges[1].change_date) ELSE None,
      last_change_date |-> IF Len(sortedChanges) > 0
                             THEN Some(sortedChanges[Len(sortedChanges)].change_date)
                             ELSE None]

summaryOf(chs, q, found, evts) ==
  LET allChanges == getChangesByPropertyId(chs, q.property_id)
      sortedChanges == SortAsc(allChanges,
                               [i \in DOMAIN allChanges |-> changeDate(allChanges[i])])
  IN [total_changes |-> Len(found),
      total_events |-> Len(evts),
      first_change_date |-> IF Len(sortedChanges) > 0
                              THEN Some(sortedChanges[1].change_date) ELSE None,
      last_change_date |-> IF Len(sortedChanges) > 0
                             THEN Some(sortedChanges[Len(sortedChanges)].change_date)
                             ELSE None]

\* a faulty variant of the audit parameters, counting the changes only
auditParams_changesOnly(q, found, evts) ==
  [user_id |-> "system",
   consulted_property_id |-> q.property_id,
   applied_filters |-> q,
   records_returned |-> Len(found),
   exported |-> FALSE,
   export_format |-> None]

\* the argument propertyHistoryQuery gives registerAuditLog
auditParams(q, found, evts) ==
  [user_id |-> "system",
   consulted_property_id |-> q.property_id,
   applied_filters |-> q,
   records_returned |-> Len(found) + Len(evts),
   exported |-> FALSE,
   export_format |-> None]

registerAuditLog(params, audit_id, t) ==
  [audit_id |-> audit_id,
   user_id |-> params.user_id,
   consulted_property_id |-> params.consulted_property_id,
   consultation_timestamp |-> t,
   applied_filters |-> params.applied_filters,
   records_returned |-> params.records_returned,
   exported |-> params.exported,
   export_format |-> params.export_format]

PropertyHistoryQuery(q) ==
  LET op == "propertyHistoryQuery"
      found == filterChanges(changes, q, tz)
      evts == filterEvents(events, q, tz)
      audit_id == uuids.audit + 1
  IN /\ UNCHANGED <<records, seqRecords, locks, changes, events, now, tz, inflight>>
     /\ IF ~historyQuerySchema(q, now)
          THEN /\ result' = ServiceError(op, "VALIDATION_ERROR", 400)
               /\ UNCHANGED <<audits, uuids>>
        ELSE IF ~PropertyStore_exists(records, q.property_id)
          THEN /\ result' = ServiceError(op, "NOT_FOUND", 404)
               /\ UNCHANGED <<audits, uuids>>
        ELSE /\ HistoryCount < MaxHistory
             /\ uuids' = [uuids EXCEPT !.audit = audit_id]
             /\ audits' = addAudit(audits,
                            registerAuditLog(auditParams(q, found, evts), audit_id, now))
             /\ result' = Ok(op, [changes |-> found, lifecycle_events |-> evts,
                                  summary |-> summaryOf(changes, q, found, evts)])

-----------------------------------------------------------------------------
(* registerLifecycleEvent, registerPropertyChange *)

\* x || null
orNull(o) == IF IsNull(o) \/ o[1] = "" THEN None ELSE o

lifecycleEvent(params, event_id, t) ==
  [event_id |-> event_id,
   property_id |-> params.property_id,
   event_type |-> params.event_type,
   event_date |-> t,
   event_description |-> params.event_description,
   related_contract_id |-> orNull(params.related_contract_id),
   related_tenant_id |-> orNull(params.related_tenant_id),
   event_impact |-> params.event_impact]

RegisterLifecycleEvent(params) ==
  LET event == lifecycleEvent(params, uuids.event + 1, now)
  IN /\ HistoryCount < MaxHistory
     /\ uuids' = [uuids EXCEPT !.event = @ + 1]
     /\ events' = addEvent(events, event)
     /\ result' = Ok("registerLifecycleEvent", event)
     /\ UNCHANGED <<records, seqRecords, locks, changes, audits, now, tz, inflight>>

propertyChange(params, change_id, t) ==
  [change_id |-> change_id,
   property_id |-> params.property_id,
   change_date |-> t,
   user_responsible |-> params.user_responsible,
   field_modified |-> params.field_modified,
   previous_value |-> params.previous_value,
   new_value |-> params.new_value,
   change_reason |-> params.change_reason,
   property_status |-> params.property_status,
   change_type |-> params.change_type]

RegisterPropertyChange(params) ==
  LET change == propertyChange(params, uuids.change + 1, now)
  IN /\ HistoryCount < MaxHistory
     /\ uuids' = [uuids EXCEPT !.change = @ + 1]
     /\ changes' = addChange(changes, change)
     /\ result' = Ok("registerPropertyChange", change)
     /\ UNCHANGED <<records, seqRecords, locks, events, audits, now, tz, inflight>>


-----------------------------------------------------------------------------
(* Inputs *)

Rua_A == <<"R","u","a"," ","A",",","1">>
Rua_B == <<"R","u","a"," ","B",",","2">>
RuaA_noBlank == <<"R","u","a","A",",","1">>
Centro == <<"C","e","n","t","r","o">>
Rio == <<"R","i","o">>
Cep1 == <<"0","1","3","1","0","-","1","0","0">>
Cep2 == <<"0","1","3","1","0","-","2","0","0">>
CepNoHyphen == <<"0","1","3","1","0","1","0","0">>
SP == <<"S","P">>
RJ == <<"R","J">>

Address(e, b, p, c, s) ==
  [endereco_completo |-> e, bairro |-> b, cep |-> p, cidade |-> c, estado |-> s]

AddrBase == Address(Rua_A, Centro, Cep1, Rio, SP)
AddrLowerEndereco == Address(toLowerCase(Rua_A), Centro, Cep1, Rio, SP)
AddrLowerBairroCidade == Address(Rua_A, toLowerCase(Centro), Cep1, toUpperCase(Rio), SP)
AddrOtherCep == Address(Rua_A, Centro, Cep2, Rio, SP)
AddrOtherEstado == Address(Rua_A, Centro, Cep1, Rio, RJ)
AddrOtherEndereco == Address(Rua_B, Centro, Cep1, Rio, SP)

Addresses == {AddrBase, AddrLowerEndereco, AddrLowerBairroCidade, AddrOtherCep,
              AddrOtherEstado, AddrOtherEndereco}

\* addresses the schemas reject
AddrNoBlank == Address(RuaA_noBlank, Centro, Cep1, Rio, SP)
AddrCepNoHyphen == Address(Rua_A, Centro, CepNoHyphen, Rio, SP)
AddrLowerEstado == Address(Rua_A, Centro, Cep1, Rio, toLowerCase(SP))
AddrLongBairro ==
  Address(Rua_A, [i \in 1..(PROPERTY_LIMITS.BAIRRO_MAX_LENGTH + 1) |-> "x"], Cep1, Rio, SP)

CreateBody(addr, tipo, quartos, usuario) ==
  [tipo_propriedade |-> tipo,
   endereco_completo |-> addr.endereco_completo,
   cep |-> addr.cep,
   bairro |-> addr.bairro,
   cidade |-> addr.cidade,
   estado |-> addr.estado,
   area_total |-> 15050,
   quartos |-> quartos,
   banheiros |-> Some(2),
   vagas_garagem |-> 2,
   valor_aluguel |-> 250000,
   valor_condominio |-> Some(35000),
   valor_iptu |-> None,
   descricao |-> None,
   usuario_cadastro |-> usuario]

UpdateBody(addr, tipo, quartos, status) ==
  [tipo_propriedade |-> tipo,
   endereco_completo |-> addr.endereco_completo,
   cep |-> addr.cep,
   bairro |-> addr.bairro,
   cidade |-> addr.cidade,
   estado |-> addr.estado,
   area_total |-> 18000,
   quartos |-> quartos,
   banheiros |-> Some(3),
   vagas_garagem |-> 2,
   valor_aluguel |-> 300000,
   valor_condominio |-> Some(40000),
   valor_iptu |-> Some(150000),
   descricao |-> Some(<<"o","k">>),
   status |-> status]

\* the bodies of the property-store specification
StoreCreateBodies ==
  {CreateBody(a, "Casa", Some(2), "user123") : a \in Addresses}
    \cup {CreateBody(AddrOtherCep, "Loja", None, "user123"),
          CreateBody(AddrOtherCep, "Loja", Some(2), "user123"),
          CreateBody(AddrLowerEstado, "Casa", Some(2), "user123"),
          CreateBody(AddrNoBlank, "Casa", Some(2), "user123")}

StoreUpdateBodies ==
  {UpdateBody(a, "Casa", Some(3), "Ocupada") :
     a \in {AddrBase, AddrLowerBairroCidade, AddrOtherEstado}}
    \cup {UpdateBody(AddrOtherCep, "Galpao", None, "Disponivel"),
          UpdateBody(AddrOtherCep, "Galpao", Some(1), "Disponivel"),
          UpdateBody(AddrCepNoHyphen, "Casa", Some(3), "Ocupada")}

\* property ids a caller may name: RecordLimit + 1 is never stored
StoreIds == 1..(RecordLimit + 1)

\* property ids a caller of the five operations may name: 0 is no UUID, and
\* CreateBodies fills the store with two properties at most
PropertyIds == {0, 1, 2, 3}

\* the bodies of the specification of all five operations
CreateBodies ==
  {CreateBody(AddrBase, "Casa", Some(2), "user123"),
   CreateBody(AddrOtherCep, "Loja", None, "user123"),
   CreateBody(AddrLongBairro, "Casa", Some(2), "user123")}

UpdateBodies ==
  {UpdateBody(AddrLowerEndereco, "Casa", Some(3), "Ocupada"),
   UpdateBody(AddrBase, "Casa", Some(PROPERTY_LIMITS.QUARTOS_MAX + 1), "Disponivel")}

Ana == <<"A","n","a">>

ChangeParams(property_id, user, change_type) ==
  [property_id |-> property_id,
   user_responsible |-> user,
   field_modified |-> "valor_aluguel",
   previous_value |-> Some("2500.00"),
   new_value |-> "2800.00",
   change_reason |-> "Reajuste anual",
   property_status |-> "Ocupada",
   change_type |-> change_type]

EventParams(property_id, event_type, contract) ==
  [property_id |-> property_id,
   event_type |-> event_type,
   event_description |-> "Propriedade criada no sistema",
   related_contract_id |-> contract,
   related_tenant_id |-> None,
   event_impact |-> "Propriedade disponivel para locacao"]

Query(property_id, start_date, end_date, change_type, responsible_user) ==
  [property_id |-> property_id, start_date |-> start_date, end_date |-> end_date,
   change_type |-> change_type, responsible_user |-> responsible_user]

ChangeInputs ==
  {ChangeParams(id, Ana, "mudancas_valor_aluguel") : id \in {1, 2}}

EventInputs ==
  {EventParams(1, "criacao_propriedade_sistema", None),
   EventParams(1, "vinculacao_contrato", Some(""))}

Today == StartTick
NotADate == <<"2","0","2","5","/","0","1","/","2","8">>

QueryInputs ==
  {Query(id, None, None, None, None) : id \in PropertyIds}
    \cup {Query(1, Some(IsoDate(Today)), Some(IsoDate(Today)), Some(TODOS), Some(Ana)),
          Query(1, Some(NotADate), None, None, None),
          Query(1, None, None, Some("tudo"), None)}

-----------------------------------------------------------------------------
(* Specifications *)

Init ==
  /\ records = EmptyMap
  /\ seqRecords = EmptyMap
  /\ locks = {}
  /\ changes = EmptyMap
  /\ events = EmptyMap
  /\ audits = EmptyMap
  /\ now = StartTick
  /\ tz = 0
  /\ uuids = [property |-> 0, change |-> 0, event |-> 0, audit |-> 0]
  /\ inflight = {}
  /\ result = NoResult

\* the five service operations, each call running to completion before the
\* next one starts, within one tick of the clock
Next ==
  \/ Idle /\ \E body \in CreateBodies : CreateBegin(body)
  \/ \E p \in inflight : CreateFinish(p)
  \/ Idle /\ \E id \in PropertyIds, body \in UpdateBodies : PropertyUpdate(id, body)
  \/ Idle /\ \E q \in QueryInputs : PropertyHistoryQuery(q)
  \/ Idle /\ \E params \in ChangeInputs : RegisterPropertyChange(params)
  \/ Idle /\ \E params \in EventInputs : RegisterLifecycleEvent(params)

Spec == Init /\ [][Next]_vars

\* propertyCreate and propertyUpdate on a richer set of bodies, each call
\* running to completion before the next one starts
NextStore ==
  \/ Idle /\ \E body \in StoreCreateBodies : CreateBegin(body)
  \/ \E p \in inflight : CreateFinish(p)
  \/ Idle /\ \E id \in StoreIds, body \in StoreUpdateBodies : PropertyUpdate(id, body)
  \/ Idle /\ Tick

SpecStore == Init /\ [][NextStore]_vars


\* propertyCreate invocations that interleave at their await
ConcCreateBodies ==
  {CreateBody(a, "Casa", Some(2), "user123") :
     a \in {AddrBase, AddrLowerEndereco, AddrOtherCep, AddrOtherEstado}}
    \cup {CreateBody(AddrNoBlank, "Casa", Some(2), "user123")}

NextConc ==
  \/ Cardinality(inflight) < MaxInflight /\ \E body \in ConcCreateBodies : CreateBegin(body)
  \/ \E p \in inflight : CreateFinish(p)
  \/ Idle /\ Tick

SpecConc == Init /\ [][NextConc]_vars

\* generatePropertyCode called MAX_RECORDS times on one date
InitCode ==
  /\ now \in StartTick..(StartTick + MaxTicks)
  /\ records = EmptyMap
  /\ seqRecords = EmptyMap
  /\ locks = {}
  /\ changes = EmptyMap
  /\ events = EmptyMap
  /\ audits = EmptyMap
  /\ tz = 0
  /\ uuids = [property |-> 0, change |-> 0, event |-> 0, audit |-> 0]
  /\ inflight = {}
  /\ result = NoResult

NextCode == GenerateCode

SpecCode == InitCode /\ [][NextCode]_vars


\* propertyCreate and propertyUpdate, each call running to completion, on
\* few bodies: the errors of the two operations
\* the first author registers the one address, in two letter cases; the
\* second author registers the other addresses
ErrorCreateBodies ==
  {CreateBody(a, "Casa", Some(2), "user123") : a \in {AddrBase, AddrLowerEndereco}}
    \cup {CreateBody(a, "Casa", Some(2), "user456") :
             a \in {AddrOtherCep, AddrOtherEstado, AddrOtherEndereco}}
    \cup {CreateBody(AddrNoBlank, "Casa", Some(2), "user123")}

\* every update asks for the one address, in some letter case
ErrorUpdateBodies ==
  {UpdateBody(AddrBase, "Casa", Some(3), "Ocupada"),
   UpdateBody(AddrLowerBairroCidade, "Casa", Some(3), "Ocupada"),
   UpdateBody(AddrLowerEstado, "Casa", Some(3), "Ocupada"),
   UpdateBody(AddrCepNoHyphen, "Casa", Some(3), "Ocupada")}

NextErrors ==
  \/ Idle /\ \E body \in ErrorCreateBodies : CreateBegin(body)
  \/ \E p \in inflight : CreateFinish(p)
  \/ Idle /\ \E id \in StoreIds, body \in ErrorUpdateBodies : PropertyUpdate(id, body)

SpecErrors == Init /\ [][NextErrors]_vars

\* The history of one property: the property is created, changes and events
\* are registered on a clock that crosses midnight, and one query is
\* answered; the server runs west of UTC or in UTC

\* offsets of the local time of the server from UTC, in ticks
Zones == {0 - 1, 0}

AnaUpper == toUpperCase(Ana)
Bia == <<"B","i","a">>

HistoryCreateBodies == {CreateBody(AddrBase, "Casa", Some(2), "user123")}

\* registerPropertyChange does not look the property up: property 2 is never stored
HistoryChangeInputs ==
  {ChangeParams(1, Ana, "mudancas_valor_aluguel"),
   ChangeParams(1, Bia, "alteracoes_status_propriedade"),
   ChangeParams(2, Ana, "mudancas_valor_aluguel")}

HistoryEventInputs == {EventParams(1, "criacao_propriedade_sistema", None)}

Yesterday == IsoDate(Today - TicksPerDay)
Day0 == IsoDate(Today)
Day1 == IsoDate(Today + TicksPerDay)
Day2 == IsoDate(Today + 2 * TicksPerDay)

HistoryQueryInputs ==
  {Query(id, None, None, None, None) : id \in {0, 1, 2}}
    \cup {Query(1, None, None, Some(ct), None) :
            ct \in {"mudancas_valor_aluguel", "alteracoes_status_propriedade", TODOS, "tudo"}}
    \cup {Query(1, Some(d), None, None, None) : d \in {Day0, Day1, Day2, NotADate}}
    \cup {Query(1, None, Some(d), None, None) : d \in {Yesterday, Day0, NotADate}}
    \cup {Query(1, Some(Day0), Some(Day0), ct, Some(AnaUpper)) : ct \in {None, Some(TODOS)}}
    \cup {Query(1, Some(Day0), Some(Yesterday), None, None),
          Query(1, None, None, None, Some(AnaUpper)),
          Query(1, None, None, None, Some(<<>>))}

InitHistory ==
  /\ tz \in Zones
  /\ now = StartTick
  /\ records = EmptyMap
  /\ seqRecords = EmptyMap
  /\ locks = {}
  /\ changes = EmptyMap
  /\ events = EmptyMap
  /\ audits = EmptyMap
  /\ uuids = [property |-> 0, change |-> 0, event |-> 0, audit |-> 0]
  /\ inflight = {}
  /\ result = NoResult

\* no query has been answered yet
NotAsked == audits = EmptyMap
\* the property is stored
Registered == records # EmptyMap

NextHistory ==
  \/ NotAsked /\ Idle /\ \E body \in HistoryCreateBodies : CreateBegin(body)
  \/ \E p \in inflight : CreateFinish(p)
  \/ NotAsked /\ Registered /\ \E params \in HistoryChangeInputs : RegisterPropertyChange(params)
  \/ NotAsked /\ Registered /\ \E params \in HistoryEventInputs : RegisterLifecycleEvent(params)
  \/ NotAsked /\ Idle /\ \E q \in HistoryQueryInputs : PropertyHistoryQuery(q)
  \/ NotAsked /\ Registered /\ Tick

SpecHistory == InitHistory /\ [][NextHistory]_vars

\* The outcomes of propertyHistoryQuery: the property is created, events
\* are registered, the clock crosses midnight, and queries are asked at
\* every point
NextQuery ==
  \/ NotAsked /\ Idle /\ \E body \in HistoryCreateBodies : CreateBegin(body)
  \/ \E p \in inflight : CreateFinish(p)
  \/ NotAsked /\ Registered /\ \E params \in HistoryEventInputs : RegisterLifecycleEvent(params)
  \/ NotAsked /\ Idle /\ \E q \in HistoryQueryInputs : PropertyHistoryQuery(q)
  \/ NotAsked /\ Idle /\ Tick

SpecQuery == InitHistory /\ [][NextQuery]_vars

-----------------------------------------------------------------------------
(* Properties *)

\* every property propertyCreate has built: stored, or about to be stored
Created == getAll(records) \cup inflight

\* the parts of a code PROP-YYYYMMDD-N...
codeDate(p) == SubSeq(p.codigo_propriedade, 6, 13)
codeDigits(p) == SubSeq(p.codigo_propriedade, 15, Len(p.codigo_propriedade))
codeSeq(p) == ParseDigits(codeDigits(p))

EqualIgnoringCase(a, b) == toLowerCase(a) = toLowerCase(b)

SameAddressTuple(p, q) ==
  /\ EqualIgnoringCase(p.endereco_completo, q.endereco_completo)
  /\ EqualIgnoringCase(p.bairro, q.bairro)
  /\ EqualIgnoringCase(p.cidade, q.cidade)
  /\ p.cep = q.cep
  /\ EqualIgnoringCase(p.estado, q.estado)

\* C1: with propertyCreate and propertyUpdate calls running one after the
\* other, no two distinct stored properties have the same address tuple
\* (endereco_completo, bairro, cidade and estado compared ignoring letter
\* case, cep compared exactly).
C1_UniqueAddress ==
  \A i \in DOMAIN records : \A j \in DOMAIN records :
    i # j => ~SameAddressTuple(records[i], records[j])

\* two properties are stored, one of them has been updated, and a call has
\* just been refused for a duplicate address
C1_Witness ==
  /\ PropertyStore_count(records) = 2
  /\ \E i \in DOMAIN records : records[i].status = "Ocupada"
  /\ result.code = "DUPLICATE_ADDRESS"

\* C10: with propertyCreate and propertyUpdate calls running one after the
\* other, the store never holds more properties than the storage limit.
C10_StoreWithinLimit == PropertyStore_count(records) <= RecordLimit

\* the store is full and propertyCreate has just refused a new address
C10_Witness ==
  /\ PropertyStore_count(records) = RecordLimit
  /\ result.op = "propertyCreate"
  /\ result.code = "MAX_RECORDS_REACHED"

\* C8: for each date the numbers in the codes of the properties created on
\* it are 1, 2, ..., n in creation order, n being getCurrentSequential of
\* the date, so that no two properties share a code; a propertyCreate that
\* fails leaves the counters as they were.
C8_SequentialCodes ==
  /\ [](/\ \A d \in DOMAIN seqRecords \cup {codeDate(p) : p \in Created} :
             {codeSeq(p) : p \in {x \in Created : codeDate(x) = d}}
               = 1..getCurrentSequential(seqRecords, d)
        /\ \A p \in Created : \A q \in Created :
             /\ (p.property_id < q.property_id /\ codeDate(p) = codeDate(q))
                  => codeSeq(p) < codeSeq(q)
             /\ p.property_id # q.property_id
                  => p.codigo_propriedade # q.codigo_propriedade)
  /\ [][(result'.op = "propertyCreate" /\ result'.code # "OK")
          => seqRecords' = seqRecords]_vars

\* two properties were created on one date, with the numbers 1 and 2, and a
\* propertyCreate has just failed on the next date
C8_Witness ==
  /\ result.op = "propertyCreate" /\ result.code # "OK"
  /\ \E p \in getAll(records) : \E q \in getAll(records) :
       codeDate(p) = codeDate(q) /\ codeSeq(p) = 1 /\ codeSeq(q) = 2
  /\ \A p \in getAll(records) : codeDate(p) # RemoveHyphens(IsoDate(now))

\* C9: when propertyCreate invocations interleave at their await, no two of
\* them obtain the same sequence number for one date, and no invocation
\* ever finds the lock of getNextSequential held.
C9_DistinctSequenceNumbers ==
  /\ locks = {}
  /\ \A p \in Created : \A q \in Created :
       (p.property_id # q.property_id /\ codeDate(p) = codeDate(q))
         => codeSeq(p) # codeSeq(q)

\* two invocations of one date are suspended at their await at once
C9_Witness ==
  \E p \in inflight : \E q \in inflight :
    p.property_id # q.property_id /\ codeDate(p) = codeDate(q)

\* C7: the code generatePropertyCode returns is PROP-YYYYMMDD-NNN: the date
\* of the call and the sequence number in exactly three decimal digits.
C7_CodeFormat ==
  result.op = "generatePropertyCode" =>
    LET code == result.data[1].codigo_propriedade
        dateStr == RemoveHyphens(IsoDate(now))
    IN /\ Len(code) = 17
       /\ SubSeq(code, 1, 5) = <<"P","R","O","P","-">>
       /\ SubSeq(code, 6, 13) = dateStr
       /\ Len(dateStr) = 8 /\ \A i \in 1..8 : IsDigit(dateStr[i])
       /\ code[14] = "-"
       /\ \A i \in 15..17 : IsDigit(code[i])
       /\ ParseDigits(SubSeq(code, 15, 17)) = getCurrentSequential(seqRecords, dateStr)

\* C2 as stated: a stored property keeps the field values it was created
\* with, whatever operation runs.
C2_NeverMutated ==
  [][\A id \in DOMAIN records :
       id \in DOMAIN records' /\ records'[id] = records[id]]_vars

\* C2: a stored property keeps its property_id, codigo_propriedade,
\* data_cadastro and usuario_cadastro whatever operation runs, and its other
\* fields change only in a successful propertyUpdate of that property, which
\* returns the entity it stored.
C2_OnlyUpdateMutates ==
  [][\A id \in DOMAIN records :
       /\ id \in DOMAIN records'
       /\ records'[id].property_id = id
       /\ records'[id].codigo_propriedade = records[id].codigo_propriedade
       /\ records'[id].data_cadastro = records[id].data_cadastro
       /\ records'[id].usuario_cadastro = records[id].usuario_cadastro
       /\ records'[id] # records[id]
            => /\ result'.op = "propertyUpdate"
               /\ result'.code = "OK"
               /\ result'.data = Some(records'[id])]_vars

\* a propertyUpdate has just replaced the fields of a stored property
C2_Witness ==
  /\ result.op = "propertyUpdate"
  /\ result.code = "OK"
  /\ \E id \in DOMAIN records :
       /\ result.data = Some(records[id])
       /\ records[id].status = "Ocupada"
       /\ records[id].endereco_completo = AddrLowerEndereco.endereco_completo

\* C3: a stored change record, lifecycle event or audit record stays stored
\* under its id with the same field values whatever operation runs, and the
\* numbers of changes, events and audits never decrease.
C3_AppendOnly ==
  [][/\ \A id \in DOMAIN changes : id \in DOMAIN changes' /\ changes'[id] = changes[id]
     /\ \A id \in DOMAIN events : id \in DOMAIN events' /\ events'[id] = events[id]
     /\ \A id \in DOMAIN audits : id \in DOMAIN audits' /\ audits'[id] = audits[id]
     /\ countChanges(changes') >= countChanges(changes)
     /\ countEvents(events') >= countEvents(events)
     /\ PropertyAuditStore_count(audits') >= PropertyAuditStore_count(audits)]_vars

\* each log holds a record and a propertyUpdate has run since
C3_Witness ==
  /\ countChanges(changes) > 0
  /\ countEvents(events) > 0
  /\ PropertyAuditStore_count(audits) > 0
  /\ result.op = "propertyUpdate" /\ result.code = "OK"

\* C4: a property_id present in the property store stays present whatever
\* operation runs, and propertyStore.count() never decreases.
C4_NeverRemoved ==
  [][/\ DOMAIN records \subseteq DOMAIN records'
     /\ PropertyStore_count(records') >= PropertyStore_count(records)]_vars

\* the second property has just been stored after operations on the first
C4_Witness ==
  /\ PropertyStore_count(records) = 2
  /\ result.op = "propertyCreate" /\ result.code = "OK"
  /\ \E id \in DOMAIN records : records[id].status = "Ocupada"
  /\ HistoryCount > 0

\* the audit records a step adds
newAudits == {audits'[id] : id \in DOMAIN audits' \ DOMAIN audits}

\* C5 as stated: every call of propertyHistoryQuery adds exactly one audit
\* record, for the consulted property.
C5_EveryCallLogged ==
  [][result'.op = "propertyHistoryQuery" =>
       \A q \in QueryInputs : PropertyHistoryQuery(q) =>
         /\ Cardinality(newAudits) = 1
         /\ \A a \in newAudits : a.consulted_property_id = q.property_id]_vars

\* C5: a call of propertyHistoryQuery that returns adds exactly one audit
\* record, for the consulted property; a call that throws adds none.
C5_EveryAnswerLogged ==
  [][result'.op = "propertyHistoryQuery" =>
       \A q \in QueryInputs : PropertyHistoryQuery(q) =>
         IF result'.code = "OK"
           THEN /\ Cardinality(newAudits) = 1
                /\ PropertyAuditStore_count(audits') = PropertyAuditStore_count(audits) + 1
                /\ \A a \in newAudits : a.consulted_property_id = q.property_id
           ELSE audits' = audits]_vars

\* the same property has been consulted twice
C5_Witness ==
  /\ result.op = "propertyHistoryQuery" /\ result.code = "OK"
  /\ PropertyAuditStore_count(audits) = 2
  /\ \A id \in DOMAIN audits : audits[id].consulted_property_id = 1

\* C6: the audit record a propertyHistoryQuery call writes has the queried
\* property_id, user_id "system", exported = false, export_format = null,
\* the validated parameters as applied_filters, and as records_returned the
\* number of changes plus the number of lifecycle events of the response.
C6_AuditContent ==
  [][result'.op = "propertyHistoryQuery" =>
       \A q \in QueryInputs : PropertyHistoryQuery(q) =>
         \A a \in newAudits :
           /\ a.consulted_property_id = q.property_id
           /\ a.user_id = "system"
           /\ a.exported = FALSE
           /\ a.export_format = None
           /\ a.applied_filters = q
           /\ a.records_returned = Len(result'.data[1].changes)
                                     + Len(result'.data[1].lifecycle_events)]_vars

\* a query with filters has returned a change and an event, and is logged
C6_Witness ==
  /\ result.op = "propertyHistoryQuery" /\ result.code = "OK"
  /\ Len(result.data[1].changes) = 1
  /\ Len(result.data[1].lifecycle_events) = 1
  /\ \E id \in DOMAIN audits :
       /\ audits[id].records_returned = 2
       /\ ~IsNull(audits[id].applied_filters.start_date)

\* a stored property other than `except` has the address tuple of the body
AddressTaken(body, except) ==
  \E id \in DOMAIN records \ {except} : SameAddressTuple(records[id], body)

\* C11: propertyCreate with a schema-valid body whose address tuple is that
\* of a stored property (ignoring letter case) fails with DUPLICATE_ADDRESS
\* (409), whether the store is full or not, and leaves the property store
\* and the sequence counters unchanged.
C11_CreateDuplicateRefused ==
  [][\A body \in ErrorCreateBodies :
       (CreateBegin(body) /\ createSchema(body) /\ AddressTaken(body, 0))
         => /\ result' = ServiceError("propertyCreate", "DUPLICATE_ADDRESS", 409)
            /\ records' = records
            /\ seqRecords' = seqRecords
            /\ inflight' = inflight]_vars

\* a duplicate of a stored address has just been refused while the store is full
C11_Witness ==
  /\ result = ServiceError("propertyCreate", "DUPLICATE_ADDRESS", 409)
  /\ PropertyStore_count(records) = RecordLimit
  /\ \A id \in DOMAIN records : records[id].status = PROPERTY_DEFAULTS.STATUS

\* C12: propertyCreate with a schema-valid body whose address no stored
\* property has fails with MAX_RECORDS_REACHED (507) exactly when the store
\* is full, and then adds no property and consumes no sequence number;
\* otherwise the call takes one sequence number and adds exactly one
\* property, the one it returns.
C12_CreateLimit ==
  /\ [][\A body \in ErrorCreateBodies :
          (CreateBegin(body) /\ createSchema(body) /\ ~AddressTaken(body, 0))
            => IF PropertyStore_count(records) >= RecordLimit
                 THEN /\ result' = ServiceError("propertyCreate", "MAX_RECORDS_REACHED", 507)
                      /\ records' = records
                      /\ seqRecords' = seqRecords
                      /\ inflight' = inflight
                 ELSE /\ result'.code # "MAX_RECORDS_REACHED"
                      /\ Cardinality(inflight') = 1
                      /\ \A p \in inflight' :
                           /\ p.property_id \notin DOMAIN records
                           /\ p.endereco_completo = body.endereco_completo
                           /\ codeSeq(p) = getCurrentSequential(seqRecords, codeDate(p)) + 1
                           /\ getCurrentSequential(seqRecords', codeDate(p)) = codeSeq(p)]_vars
  /\ [][\A p \in inflight :
          CreateFinish(p)
            => /\ result' = Ok("propertyCreate", p)
               /\ DOMAIN records' = DOMAIN records \cup {p.property_id}
               /\ PropertyStore_count(records') = PropertyStore_count(records) + 1
               /\ records'[p.property_id] = p
               /\ \A id \in DOMAIN records : records'[id] = records[id]]_vars

\* a new address has just been refused by the full store, after an update
C12_Witness ==
  /\ result = ServiceError("propertyCreate", "MAX_RECORDS_REACHED", 507)
  /\ PropertyStore_count(records) = RecordLimit
  /\ \E id \in DOMAIN records : records[id].status = "Ocupada"

\* C13: propertyUpdate fails with VALIDATION_ERROR (400) for a body the
\* schema refuses, otherwise with NOT_FOUND (404) when no property has the
\* id, otherwise with DUPLICATE_ADDRESS (409) when another stored property
\* has the address tuple of the body, and otherwise succeeds; a failing call
\* leaves the property store as it was.
C13_UpdateErrors ==
  [][\A id \in StoreIds : \A body \in ErrorUpdateBodies :
       PropertyUpdate(id, body)
         => /\ result' =
                 IF ~updateSchema(body)
                   THEN ServiceError("propertyUpdate", "VALIDATION_ERROR", 400)
                 ELSE IF id \notin DOMAIN records
                   THEN ServiceError("propertyUpdate", "NOT_FOUND", 404)
                 ELSE IF AddressTaken(body, id)
                   THEN ServiceError("propertyUpdate", "DUPLICATE_ADDRESS", 409)
                 ELSE Ok("propertyUpdate", records'[id])
            /\ result'.code # "OK" => records' = records]_vars

\* an update to the address of the other stored property has just been refused
C13_Witness ==
  /\ result = ServiceError("propertyUpdate", "DUPLICATE_ADDRESS", 409)
  /\ PropertyStore_count(records) = 2
  /\ \A id \in DOMAIN records : records[id].status = PROPERTY_DEFAULTS.STATUS

\* C14: a successful propertyUpdate that changes fields of a property adds
\* a change record for that property to the history store.
C14_UpdateTracksHistory ==
  [][(result'.op = "propertyUpdate" /\ result'.code = "OK")
       => \A id \in DOMAIN records :
            records'[id] # records[id]
              => \E c \in DOMAIN changes' \ DOMAIN changes :
                   changes'[c].property_id = id]_vars

\* the day, counted from 1970-01-01, a string YYYY-MM-DD names
DateDay(s) ==
  DaysFromCivil(ParseDigits(SubSeq(s, 1, 4)), ParseDigits(SubSeq(s, 6, 7)),
                ParseDigits(SubSeq(s, 9, 10)))

\* a date parameter that is not YYYY-MM-DD or lies after the day of t
BadDate(d, t) == ~IsNull(d) /\ (~dateRegex(d[1]) \/ DateDay(d[1]) > DayOf(t))

\* the parameters C15 lists as refused
ListedInvalid(q, t) ==
  \/ ~IsUuid(q.property_id)
  \/ BadDate(q.start_date, t)
  \/ BadDate(q.end_date, t)
  \/ /\ ~IsNull(q.start_date) /\ ~IsNull(q.end_date)
     /\ dateRegex(q.start_date[1]) /\ dateRegex(q.end_date[1])
     /\ DateDay(q.start_date[1]) > DateDay(q.end_date[1])
  \/ ~IsNull(q.change_type) /\ q.change_type[1] \notin PROPERTY_CHANGE_TYPES

Matches(c, q) ==
  /\ c.property_id = q.property_id
  /\ IsNull(q.start_date) \/ DayOf(c.change_date) >= DateDay(q.start_date[1])
  /\ IsNull(q.end_date) \/ DayOf(c.change_date) <= DateDay(q.end_date[1])
  /\ IsNull(q.change_type) \/ q.change_type[1] = TODOS \/ c.change_type = q.change_type[1]
  /\ IsNull(q.responsible_user)
       \/ EqualIgnoringCase(c.user_responsible, q.responsible_user[1])

\* C16: the changes a successful propertyHistoryQuery returns are exactly
\* the stored change records of the queried property that pass every filter
\* supplied: change_date on or after start_date, on or before end_date,
\* change_type as requested, user_responsible as requested ignoring case.
C16_FilteredChanges ==
  [][(result'.op = "propertyHistoryQuery" /\ result'.code = "OK") =>
       \A a \in newAudits :
         LET returned == result'.data[1].changes
             expected == {c \in DOMAIN changes : Matches(changes[c], a.applied_filters)}
         IN /\ {returned[i] : i \in DOMAIN returned} = {changes[c] : c \in expected}
            /\ Len(returned) = Cardinality(expected)]_vars

\* C17: propertyHistoryQuery with change_type 'todos' returns the changes,
\* lifecycle_events and summary of the same query without change_type on
\* the same state of the stores.
C17_TodosIsNoFilter ==
  [][(result'.op = "propertyHistoryQuery" /\ result'.code = "OK") =>
       \A a \in newAudits :
         a.applied_filters.change_type = Some(TODOS) =>
           LET q0 == [a.applied_filters EXCEPT !.change_type = None]
               found == filterChanges(changes, q0, tz)
               evts == filterEvents(events, q0, tz)
           IN result'.data[1] = [changes |-> found, lifecycle_events |-> evts,
                                 summary |-> summaryOf(changes, q0, found, evts)]]_vars

\* a query with change_type 'todos' has returned a change of another type
C17_Witness ==
  /\ result.op = "propertyHistoryQuery" /\ result.code = "OK"
  /\ Len(result.data[1].changes) > 0
  /\ \E id \in DOMAIN audits : audits[id].applied_filters.change_type = Some(TODOS)

\* C18: in every response of propertyHistoryQuery summary.total_changes is
\* the number of changes returned and summary.total_events the number of
\* lifecycle events returned.
C18_SummaryTotals ==
  (result.op = "propertyHistoryQuery" /\ result.code = "OK") =>
    /\ result.data[1].summary.total_changes = Len(result.data[1].changes)
    /\ result.data[1].summary.total_events = Len(result.data[1].lifecycle_events)

\* a filter has kept one of the two changes of the property
C18_Witness ==
  /\ result.op = "propertyHistoryQuery" /\ result.code = "OK"
  /\ result.data[1].summary.total_changes = 1
  /\ Cardinality({c \in DOMAIN changes : changes[c].property_id = 1}) = 2

\* the change dates of the property id
ChangeDatesOf(id) == {changes[c].change_date : c \in {x \in DOMAIN changes : changes[x].property_id = id}}

\* C19: in every response of propertyHistoryQuery first_change_date and
\* last_change_date are the earliest and the latest change_date of all
\* change records of the queried property, whatever the filters; both are
\* null exactly when the property has no change record; every change
\* returned lies between them.
C19_SummaryDates ==
  [][(result'.op = "propertyHistoryQuery" /\ result'.code = "OK") =>
       \A a \in newAudits :
         LET dates == ChangeDatesOf(a.consulted_property_id)
             summary == result'.data[1].summary
             returned == result'.data[1].changes
         IN IF dates = {}
              THEN /\ summary.first_change_date = None
                   /\ summary.last_change_date = None
                   /\ returned = <<>>
              ELSE /\ summary.first_change_date = Some(CHOOSE d \in dates : \A e \in dates : d <= e)
                   /\ summary.last_change_date = Some(CHOOSE d \in dates : \A e \in dates : d >= e)
                   /\ \A i \in DOMAIN returned :
                        /\ summary.first_change_date[1] <= returned[i].change_date
                        /\ returned[i].change_date <= summary.last_change_date[1]]_vars

\* the property has changes on two days and the filters have kept none
C19_Witness ==
  /\ result.op = "propertyHistoryQuery" /\ result.code = "OK"
  /\ result.data[1].changes = <<>>
  /\ ~IsNull(result.data[1].summary.first_change_date)
  /\ DayOf(result.data[1].summary.first_change_date[1])
       < DayOf(result.data[1].summary.last_change_date[1])

\* C20: every stored property of a commercial type (Loja, Sala Comercial,
\* Galpao) has quartos = null, whether propertyCreate or propertyUpdate gave
\* it the type.
C20_CommercialWithoutRooms ==
  \A p \in Created :
    p.tipo_propriedade \in {"Loja", "Sala Comercial", "Galpao"} => p.quartos = None

\* a propertyUpdate has just made a stored property a warehouse
C20_Witness ==
  /\ result.op = "propertyUpdate" /\ result.code = "OK"
  /\ \E id \in DOMAIN records :
       /\ result.data = Some(records[id])
       /\ records[id].tipo_propriedade = "Galpao"
       /\ records[id].quartos = None

C22_EndDateInclusive ==
  [][(result'.op = "propertyHistoryQuery" /\ result'.code = "OK") =>
       \A a \in newAudits :
         LET q == a.applied_filters
             q0 == [q EXCEPT !.end_date = None]
             open == filterChanges(changes, q0, tz)
             openEvents == filterEvents(events, q0, tz)
             returned == result'.data[1].changes
             returnedEvents == result'.data[1].lifecycle_events
         IN ~IsNull(q.end_date) =>
              /\ \A i \in DOMAIN open :
                   DayOf(open[i].change_date) <= DateDay(q.end_date[1])
                     => \E j \in DOMAIN returned : returned[j] = open[i]
              /\ \A i \in DOMAIN openEvents :
                   DayOf(openEvents[i].event_date) <= DateDay(q.end_date[1])
                     => \E j \in DOMAIN returnedEvents : returnedEvents[j] = openEvents[i]]_vars

\* C23: in the response of every successful propertyHistoryQuery, whatever
\* filters it carries, the changes come newest first by change_date and the
\* lifecycle events newest first by event_date.
C23_NewestFirst ==
  (result.op = "propertyHistoryQuery" /\ result.code = "OK") =>
    LET returned == result.data[1].changes
        returnedEvents == result.data[1].lifecycle_events
    IN /\ \A i, j \in DOMAIN returned :
            i < j => returned[i].change_date >= returned[j].change_date
       /\ \A i, j \in DOMAIN returnedEvents :
            i < j => returnedEvents[i].event_date >= returnedEvents[j].event_date

\* a query for the changes of one user has just returned two changes
\* registered on different days, the later one first
C23_Witness ==
  /\ result.op = "propertyHistoryQuery"
  /\ result.code = "OK"
  /\ Len(result.data[1].changes) = 2
  /\ result.data[1].changes[1].change_date > result.data[1].changes[2].change_date
  /\ result.data[1].changes[1].change_id > result.data[1].changes[2].change_id
  /\ \E id \in DOMAIN audits :
       audits[id].applied_filters.responsible_user = Some(AnaUpper)

=============================================================================
